---- MODULE Spec2Model ----
(***************************************************************************)
(* The client convenience layer of notebooks/getting_started.ipynb:        *)
(* request (a backoff-decorated HTTP call carrying the bearer token) and   *)
(* Paginate (an iterator that re-issues the request of the response it     *)
(* holds with the response's next-cursor as from-cursor).                  *)
(*                                                                         *)
(* Python values are modelled as tagged records (PyNone, PyStr, PyList),   *)
(* dicts as functions from string keys, and an optional object (None or a  *)
(* value) as a sequence of length 0 or 1.                                  *)
(***************************************************************************)
EXTENDS Integers, Sequences, FiniteSets, TLC

\* ------------------------------------------------------------------ bounds
\* The server answers 429 to at most this many attempts of one request call.
MaxRateLimited == 11

\* In the specifications where a query both is rate-limited and goes on to
\* paginate, the server answers 429 to at most this many attempts of the
\* request call.
MaxRateLimitedPaged == 1

\* The server announces a further page (a truthy next-cursor) on at most
\* this many responses of one query.
MaxPages == 3

\* --------------------------------------------------------- program constants
\* "if response.status_code == 429"
RATE_LIMIT_STATUS == 429

\* "# retry requests with an exponentially increasing wait time upto 10 times"
DOCUMENTED_MAX_TRIES == 10

\* "max_value=10": the largest value, in seconds, the wait generator yields
BACKOFF_MAX_VALUE == 10

\* ------------------------------------------------------------ Python values
PyNone == [tag |-> "none", items |-> <<>>]

PyStr(s) == [tag |-> "str", items |-> <<s>>]

PyList(seq) == [tag |-> "list", items |-> seq]

PyInt(n) == [tag |-> "int", items |-> <<>>, int |-> n]

PyDict(d) == [tag |-> "dict", items |-> <<>>, dict |-> d]

\* A truthiness test that only asks "is not None".
TruthyNotNone(v) == v.tag # "none"

\* Python truthiness of a value: None, "" and [] are falsy.
Truthy(v) ==
    CASE v.tag = "none" -> FALSE
      [] v.tag = "str"  -> v.items[1] # ""
      [] OTHER          -> Len(v.items) > 0

EmptyDict == [k \in {} |-> PyNone]

\* dict.get(key, None)
DictGet(d, key) == IF key \in DOMAIN d THEN d[key] ELSE PyNone

\* An assignment that adds the value to the ones the key already has.
DictSetAppend(d, key, value) ==
    [k \in DOMAIN d \cup {key} |->
        IF k # key THEN d[k]
        ELSE IF key \in DOMAIN d THEN PyList(d[key].items \o value.items)
        ELSE value]

\* An assignment that keeps the value a key already has (setdefault).
DictSetDefault(d, key, value) ==
    [k \in DOMAIN d \cup {key} |-> IF k \in DOMAIN d THEN d[k] ELSE value]

\* d[key] = value
DictSet(d, key, value) ==
    [k \in DOMAIN d \cup {key} |-> IF k = key THEN value ELSE d[k]]

\* ------------------------------------------------------------- input sets
Methods == {"GET", "POST", "PUT"}

Endpoints == {"entities", "search"}

Keys == {"a", "b"}

\* params=None, or a dict whose values are None, "" or "1"
ParamsInputs ==
    {<<>>} \cup {<<d>> : d \in [Keys -> {PyNone, PyStr(""), PyStr("1")}]}

\* json=None, or a JSON object
JsonInputs ==
    {<<>>, <<EmptyDict>>, <<[k \in {"a"} |-> PyStr("1")]>>,
     <<[k \in Keys |-> IF k = "a" THEN PyStr("") ELSE PyNone]>>}

\* The calls of request the model makes: a GET with any of the params and at
\* most a small body, a POST with any of the bodies and at most one params
\* dict, and a call with a method Paginate does not support.
Calls ==
    {c \in [method : Methods, endpoint : Endpoints,
            params : ParamsInputs, json : JsonInputs] :
        /\ (c.method = "GET" =>
                c.json \in {<<>>, <<[k \in {"a"} |-> PyStr("1")]>>})
        /\ (c.method = "POST" =>
                c.params \in {<<>>, <<[k \in Keys |-> PyStr("1")]>>})
        /\ (c.method = "PUT" => c.params = <<>> /\ c.json = <<>>)}

\* What the token endpoint may answer to POST /auth/token: a status and a
\* body, <<>> for a body that is no JSON document, else the JSON object.
TokenReplies ==
    {[status |-> 200, body |-> <<[k \in {"access_token"} |-> PyStr("token-1")]>>],
     [status |-> 200, body |-> <<[k \in {"access_token"} |-> PyStr("token-2")]>>],
     [status |-> 401, body |-> <<[k \in {"error"} |-> PyStr("invalid_client")]>>],
     [status |-> 429, body |-> <<EmptyDict>>],
     [status |-> 502, body |-> <<>>]}

\* What the server may answer: a status and the shape of next-cursor.
Statuses == {200, 300, 404, 429, 500}

CursorKinds == {"absent", "null", "empty", "token"}

\* The opaque cursor the server puts on the n-th page of a query.
Tokens == <<"c1", "c2", "c3", "c4", "c5", "c6", "c7", "c8">>

\* What the server holds for a query: items it lists page by page, nothing at
\* all, or items it counts in stats.total but lists on no page.
Corpora == {"listed", "empty", "counted"}

\* The items the server lists on the n-th page of a query that matches some;
\* a page may be empty.
PageItems ==
    <<<<"e1", "e2">>, <<"e3">>, <<>>, <<"e4">>, <<"e5", "e6">>, <<"e7">>,
      <<"e8">>, <<"e9">>>>

\* ------------------------------------------------------------ HTTP layer
\* The query string requests builds from params=: a None value is left out,
\* a scalar gives one pair, a list one pair per element.  The query is kept
\* as key -> sequence of the values sent under that key.
EncodeParams(params) ==
    [k \in {x \in DOMAIN params : Len(params[x].items) > 0} |-> params[k].items]

\* json.dumps of a JSON object: its text, kept as the set of its members.
json_dumps(d) == {<<k, d[k]>> : k \in DOMAIN d}

\* json.loads of the text of a JSON object.
json_loads(text) ==
    [k \in {m[1] : m \in text} |-> (CHOOSE m \in text : m[1] = k)[2]]

\* The body requests builds from json=: None gives no body, a dict its
\* JSON text.
EncodeJson(json) == IF json = <<>> THEN <<>> ELSE <<json_dumps(json[1])>>

\* str(v) as an f-string formats it: None gives the text "None".
Str(v) == IF v.tag = "none" THEN "None" ELSE v.items[1]

\* f'Bearer {TEMP_ACCESS_TOKEN}'
BearerHeader(token) == [scheme |-> "Bearer", credentials |-> Str(token)]

\* len(s) for the strings the model's inputs are made of.
StrLen(s) ==
    CASE s = ""                -> 0
      [] s \in {"a", "b", "1"} -> 1
      [] s = "from-cursor"     -> 11
      [] OTHER                 -> 2

\* The length of the JSON text of a value: null, or a string in quotes.
ValueLen(v) == IF v.tag = "none" THEN 4 ELSE StrLen(v.items[1]) + 2

\* The length of the members of a JSON object as json.dumps writes them:
\* "key": value, joined by ", ".
RECURSIVE MembersLen(_)
MembersLen(text) ==
    IF text = {} THEN 0
    ELSE LET m == CHOOSE x \in text : TRUE
             rest == text \ {m}
         IN  StrLen(m[1]) + 2 + 2 + ValueLen(m[2])
             + (IF rest = {} THEN 0 ELSE 2 + MembersLen(rest))

\* len(body) of the encoded JSON text: the braces and the members.
JsonLen(text) == 2 + MembersLen(text)

\* The headers request passes: Authorization and Content-Type.
RequestHeaders(authorization) ==
    [h \in {"Authorization", "Content-Type"} |->
        IF h = "Authorization" THEN authorization ELSE "application/json"]

\* The headers of the prepared request: the headers passed in, then
\* Content-Length as requests sets it (prepare_content_length): the length of
\* the body when there is one; else 0 for a method other than GET and HEAD
\* when no Content-Length was passed in; else nothing is touched.  A json
\* body sets Content-Type only when none was passed in.
PrepareHeaders(method, headers, body) ==
    LET typed ==
            IF body # <<>> /\ "Content-Type" \notin DOMAIN headers
            THEN [h \in DOMAIN headers \cup {"Content-Type"} |->
                    IF h = "Content-Type" THEN "application/json" ELSE headers[h]]
            ELSE headers
    IN  IF body # <<>>
        THEN [h \in DOMAIN typed \cup {"Content-Length"} |->
                IF h = "Content-Length" THEN JsonLen(body[1]) ELSE typed[h]]
        ELSE IF method \notin {"GET", "HEAD"} /\ "Content-Length" \notin DOMAIN typed
        THEN [h \in DOMAIN typed \cup {"Content-Length"} |->
                IF h = "Content-Length" THEN 0 ELSE typed[h]]
        ELSE typed

\* requests.request(method, f'https://api.signal-ai.com/{endpoint}', params=,
\* json=, headers=): the prepared request that goes on the wire.
PreparedRequest(method, path, params, json, authorization) ==
    [method  |-> method,
     path    |-> path,
     query   |-> IF params = <<>> THEN EncodeParams(EmptyDict)
                 ELSE EncodeParams(params[1]),
     body    |-> EncodeJson(json),
     headers |-> PrepareHeaders(method, RequestHeaders(authorization),
                                EncodeJson(json))]

\* The items on the n-th page of a query.
ItemsOnPage(corpus, n) == IF corpus = "listed" THEN PageItems[n] ELSE <<>>

\* stats.total of a search: the number of documents the query matches.
StatsTotal(corpus) ==
    IF corpus = "empty" THEN 0 ELSE Len(PageItems[1]) + Len(PageItems[2])

\* The JSON document of the n-th page of a query: the documents and the
\* stats of a search, else the entities, and, by kind, its next-cursor.
Payload(path, corpus, kind, n) ==
    LET items == PyList(ItemsOnPage(corpus, n))
        stats == PyDict([k \in {"total"} |-> PyInt(StatsTotal(corpus))])
        page == IF path = "search"
                THEN [k \in {"documents", "stats"} |->
                        IF k = "documents" THEN items ELSE stats]
                ELSE [k \in {"entities"} |-> items]
    IN  CASE kind = "absent" -> page
          [] kind = "null"   -> DictSet(page, "next-cursor", PyNone)
          [] kind = "empty"  -> DictSet(page, "next-cursor", PyStr(""))
          [] OTHER           -> DictSet(page, "next-cursor", PyStr(Tokens[n]))

\* The response object requests returns for a prepared request.
Response(n, status, kind, req, corpus) ==
    [id |-> n, status_code |-> status,
     json |-> Payload(req.path, corpus, kind, n), request |-> req]

\* Response.raise_for_status(): raises HTTPError for 4xx and 5xx.
RaisesForStatus(response) ==
    response.status_code >= 400 /\ response.status_code < 600

\* bool(response) is Response.ok: raise_for_status() does not raise.
ResponseOk(response) == ~RaisesForStatus(response)

\* A test for None only: "if response is None".
NotResponseIsNone(held) == held = <<>>

\* "if not response" on self.response, which is None or a Response.
NotResponse(held) == held = <<>> \/ ~ResponseOk(held[1])

\* "if response.status_code == 429"
IsRateLimited(response) == response.status_code = RATE_LIMIT_STATUS

\* A decorator given max_tries=3.
BackoffGivesUpAfterThree(tries) == tries >= 3

\* backoff.on_exception(backoff.expo, RateLimitError, max_value=10): max_tries
\* and max_time are left at None, so the decorator never gives up.
BackoffGivesUp(tries) == FALSE

\* backoff.expo(max_value=10), base and factor at their defaults 2 and 1:
\* the value the generator yields before the i-th retry, i = 1, 2, ...
Expo(i) ==
    IF 2 ^ (i - 1) < BACKOFF_MAX_VALUE THEN 2 ^ (i - 1) ELSE BACKOFF_MAX_VALUE

\* The decorator's jitter is left at its default, backoff.full_jitter: the
\* sleep is random.uniform(0, value), here in whole seconds.
FullJitter(value) == 0..value

\* A decorator that replays the call without its body from the second
\* attempt on.
BackoffReplayWithoutBody(c, try) ==
    IF try > 1 THEN [c EXCEPT !.json = <<>>] ELSE c

\* The decorator runs the body of request again with the arguments the
\* caller passed (target(*args, **kwargs)), at every attempt.
BackoffReplay(c, try) == c

\* A decorator that keeps its count of tries from one call to the next.
CarriedTries(previous) == previous

\* The decorator counts the tries of each call of the function it wraps in
\* a local of that call: whatever earlier calls counted, a call starts at 0.
FreshTries(previous) == 0

\* A request that drops the token when the server answers with an error.
TokenDroppedOnError(token, status) == IF status >= 400 THEN PyNone ELSE token

\* request only reads the module-level TEMP_ACCESS_TOKEN (it has no global
\* statement and no assignment to it): the token after an attempt.
TokenAfterAttempt(token, status) == token

\* An authenticate decorated like request: a 429 makes it post again.
AuthenticateRetriesRateLimit(status) == status = RATE_LIMIT_STATUS

\* authenticate carries no backoff decorator and has no loop: no answer of
\* the token endpoint makes it post again.
AuthenticateRetries(status) == FALSE

\* A lookup under the name "token".
authenticate_wrong_field(body) == DictGet(body, "token")

\* authenticate: response.json().get("access_token") on a JSON reply.
authenticate(body) == DictGet(body, "access_token")

\* ------------------------------------------------------- response helpers
\* response_to_url: scheme://netloc/path, the query string cut off.
response_to_url(response) == response.request.path

\* parse_qs(query): key -> list of values, blank values left out, and a key
\* with no value left is no key of the result.
parse_qs(query) ==
    [k \in {x \in DOMAIN query : \E i \in 1..Len(query[x]) : query[x][i] # ""}
        |-> PyList(SelectSeq(query[k], LAMBDA v : v # ""))]

response_to_params(response) == parse_qs(response.request.query)

\* A helper that starts every follow-up body afresh.
response_to_body_fresh(response) == EmptyDict

\* json.loads(body.decode()) if body is not None else {}
response_to_body(response) ==
    IF response.request.body = <<>> THEN EmptyDict
    ELSE json_loads(response.request.body[1])

\* results.extend(page.json().get('entities')) in the loop of a caller.
extend_results(results, page) == results \o DictGet(page.json, "entities").items

\* documents.extend(page.json()['documents']) in the loop of search_documents.
extend_documents(documents, page) == documents \o page.json["documents"].items

\* The body of the loop of the caller that pages through the query: the
\* callers of the search endpoint collect documents, the others entities.
extend_caller(results, page) ==
    IF page.request.path = "search" THEN extend_documents(results, page)
    ELSE extend_results(results, page)

\* An __iter__ that goes back to the response the paginator was built on.
Paginate_iter_rewind(self_response, first) == first

\* Paginate.__iter__ returns self: self.response is what it was.
Paginate_iter(self_response, first) == self_response

\* The cursor looked up under the name of the request field.
NextCursorWrongKey(response) == DictGet(response.json, "from-cursor")

\* response.json().get('next-cursor', None)
NextCursor(response) == DictGet(response.json, "next-cursor")

\* A _get without the test for the final page.
Paginate_get_unchecked(response) ==
    <<[method  |-> "GET",
       path    |-> response_to_url(response),
       query   |-> EncodeParams(DictSet(response_to_params(response),
                                        "from-cursor", NextCursor(response))),
       body    |-> EncodeJson(<<>>),
       headers |-> PrepareHeaders("GET", response.request.headers,
                                  EncodeJson(<<>>))]>>

\* Paginate._get: None (<<>>) on the final page, else the GET it sends.
Paginate_get(response) ==
    LET nxt == NextCursor(response) IN
    IF ~Truthy(nxt) THEN <<>>
    ELSE <<[method  |-> "GET",
            path    |-> response_to_url(response),
            query   |-> EncodeParams(
                            DictSet(response_to_params(response), "from-cursor", nxt)),
            body    |-> EncodeJson(<<>>),
            headers |-> PrepareHeaders("GET", response.request.headers,
                                       EncodeJson(<<>>))]>>

\* Paginate._post: None (<<>>) on the final page, else the POST it sends.
Paginate_post(response) ==
    LET nxt == NextCursor(response)
        body == EncodeJson(
                    <<DictSet(response_to_body(response), "from-cursor", nxt)>>)
    IN  IF ~Truthy(nxt) THEN <<>>
        ELSE <<[method  |-> "POST",
                path    |-> response_to_url(response),
                query   |-> EncodeParams(EmptyDict),
                body    |-> body,
                headers |-> PrepareHeaders("POST", response.request.headers,
                                           body)]>>

\* ------------------------------------------------------------------ state
VARIABLES
    TEMP_ACCESS_TOKEN,  \* the module-level bearer token
    pc,                 \* "idle", "request", "returned", "failed", "paginate"
    call,               \* the arguments of the request call in progress
    n429,               \* RateLimitError raised so far inside the request call
    attempts,           \* HTTP attempts the request call has made
    lastStatus,         \* status of the latest answer to the request call
    outcome,            \* how the request call ended, as its caller sees it
    result,             \* the Response request returned, <<>> if none
    held,               \* Paginate.self.response: <<>> is None
    pulledOn,           \* self.response when the latest pull started
    pullOutcome,        \* how the latest pull ended, as its caller sees it
    pullRetries,        \* RateLimitError raised so far inside the latest pull
    yielded,            \* the responses the iterator has returned, in order
    pages,              \* the first response and every follow-up answer, in order
    sent,               \* the follow-up requests the paginator has issued, in order
    authReply,          \* the token endpoint's answer to the latest authenticate call
    authPosts,          \* HTTP POSTs the latest authenticate call made
    authOutcome,        \* how that call ended: "none", "returned", "JSONDecodeError"
    tried,              \* the requests the attempts of the request call sent, in order
    delay,              \* seconds the decorator of request slept before the latest retry
    attempted,          \* the latest follow-up request handed to requests, <<>> if none
    heldB,              \* self.response of a second Paginate instance
    yieldedB,           \* the responses the second instance has returned, in order
    pagesB,             \* the response it was built on and its follow-up answers
    sentB,              \* the follow-up requests the second instance has issued
    rateLimitedBefore,  \* an earlier request call of the session was answered 429
    corpus,             \* what the server holds for the queries made
    throttle,           \* the most 429 answers the server gives to one request call
    collected,          \* the results list of the caller's loop over the pages
    reiterated          \* iter() was called on the paginator a second time

vars == <<TEMP_ACCESS_TOKEN, pc, call, n429, attempts, lastStatus, outcome,
          result, held, pulledOn, pullOutcome, pullRetries, yielded,
          pages, sent, authReply, authPosts, authOutcome, collected,
          reiterated, tried, delay, attempted, heldB, yieldedB, pagesB, sentB,
          rateLimitedBefore,
                   corpus, throttle>>

\* The state of a second Paginate instance.
instanceB == <<heldB, yieldedB, pagesB, sentB>>

NoCall == [method |-> "", endpoint |-> "", params |-> <<>>, json |-> <<>>]

\* The state after the cells that define request and Paginate have run and
\* before any query; the server's rate limiting is left to the specification.
Start ==
    /\ TEMP_ACCESS_TOKEN = PyStr("token-1")
    /\ pc = "idle"
    /\ call = NoCall
    /\ n429 = 0
    /\ attempts = 0
    /\ lastStatus = 0
    /\ outcome = "none"
    /\ result = <<>>
    /\ held = <<>>
    /\ pulledOn = <<>>
    /\ pullOutcome = "none"
    /\ pullRetries = 0
    /\ yielded = <<>>
    /\ pages = <<>>
    /\ sent = <<>>
    /\ authReply = <<>>
    /\ authPosts = 0
    /\ authOutcome = "none"
    /\ collected = <<>>
    /\ reiterated = FALSE
    /\ tried = <<>>
    /\ delay = 0
    /\ attempted = <<>>
    /\ heldB = <<>>
    /\ yieldedB = <<>>
    /\ pagesB = <<>>
    /\ sentB = <<>>
    /\ rateLimitedBefore = FALSE
    /\ corpus = "listed"

\* A query whose request call the server rate-limits MaxRateLimitedPaged
\* times at most before the answer that is paginated.
Init == Start /\ throttle = MaxRateLimitedPaged

\* The request call is rate-limited as long as the server may.
RetryInit == Start /\ throttle = MaxRateLimited

\* The request call is answered without rate limiting.
SteadyInit == Start /\ throttle = 0

\* What the server answers to one HTTP request: any status, and on a
\* non-error status any shape of next-cursor.  An error body carries none.
Answers(rateLimited, nPages) ==
    {a \in [status : Statuses, kind : CursorKinds] :
        /\ (a.status = RATE_LIMIT_STATUS => rateLimited < MaxRateLimited)
        /\ (a.status >= 400 => a.kind = "absent")
        /\ (a.kind = "token" => nPages < MaxPages)}

\* ----------------------------------------------------------- authenticate
\* TEMP_ACCESS_TOKEN = authenticate(client_id, client_secret): one POST to
\* the token endpoint; response.json() raises on a body that is no JSON, and
\* then the assignment does not happen; else the access_token field, or
\* None, is returned and assigned, whatever the status.
AuthenticateCall ==
    /\ \E reply \in TokenReplies :
        /\ authReply' = <<reply>>
        /\ authPosts' = IF AuthenticateRetries(reply.status) THEN 2 ELSE 1
        /\ IF reply.body = <<>>
           THEN /\ authOutcome' = "JSONDecodeError"
                /\ UNCHANGED TEMP_ACCESS_TOKEN
           ELSE /\ authOutcome' = "returned"
                /\ TEMP_ACCESS_TOKEN' = authenticate(reply.body[1])
    /\ UNCHANGED <<pc, call, n429, attempts, lastStatus, outcome, result, held,
                   pulledOn, pullOutcome, pullRetries, yielded, pages, sent,
                   collected, reiterated, tried, delay, attempted, instanceB, rateLimitedBefore,
                   corpus, throttle>>

\* The authentication cell, run before any query.
Authenticate == pc = "idle" /\ AuthenticateCall

\* The authentication cell run again while a paginator is being consumed.
Reauthenticate == pc = "paginate" /\ AuthenticateCall

\* ---------------------------------------------------------------- request
\* The caller enters request(method, endpoint, params, json): the decorator
\* starts its count of tries and its wait generator for this call.
CallRequest ==
    /\ pc = "idle"
    /\ \E c \in Calls : call' = c
    /\ pc' = "request"
    /\ n429' = FreshTries(n429)
    /\ attempts' = FreshTries(attempts)
    /\ delay' = 0
    /\ rateLimitedBefore' = (rateLimitedBefore \/ n429 > 0)
    /\ UNCHANGED <<TEMP_ACCESS_TOKEN, lastStatus, outcome, result,
                   held, pulledOn, pullOutcome, pullRetries, yielded, pages,
                   sent, authReply, authPosts, authOutcome, collected,
                   reiterated, tried, attempted, instanceB, corpus, throttle>>

\* One run of the body of request under the backoff decorator: the HTTP
\* call, then RateLimitError (caught by the decorator, which sleeps and
\* retries unless it gives up), HTTPError from raise_for_status, or the
\* response returned.  The decorator's wait generator ends with the call.
\* The request is prepared once per attempt, the response once per answer.
RequestAttempt ==
    /\ pc = "request"
    /\ attempts' = attempts + 1
    /\ \E args \in {BackoffReplay(call, attempts + 1)} :
       \E req \in {PreparedRequest(args.method, args.endpoint, args.params,
                                   args.json, BearerHeader(TEMP_ACCESS_TOKEN))} :
        /\ tried' = Append(tried, req)
        /\ \E a \in Answers(n429, 0) :
           /\ a.status = RATE_LIMIT_STATUS => n429 < throttle
           /\ lastStatus' = a.status
           /\ TEMP_ACCESS_TOKEN' = TokenAfterAttempt(TEMP_ACCESS_TOKEN, a.status)
           /\ \E response \in {Response(1, a.status, a.kind, req, corpus)} :
               IF IsRateLimited(response)
               THEN /\ n429' = n429 + 1
                    /\ result' = <<>>
                    /\ IF BackoffGivesUp(n429 + 1)
                       THEN pc' = "failed" /\ outcome' = "RateLimitError"
                                          /\ delay' = 0
                       ELSE /\ pc' = "request" /\ outcome' = "none"
                            /\ delay' \in FullJitter(Expo(n429 + 1))
               ELSE IF RaisesForStatus(response)
               THEN /\ pc' = "failed"
                    /\ outcome' = "HTTPError"
                    /\ result' = <<>>
                    /\ n429' = n429
                    /\ delay' = 0
               ELSE /\ pc' = "returned"
                    /\ outcome' = "returned"
                    /\ result' = <<response>>
                    /\ n429' = n429
                    /\ delay' = 0
    /\ UNCHANGED <<call, held, pulledOn, pullOutcome,
                   pullRetries, yielded, pages, sent, authReply, authPosts,
                   authOutcome, collected, reiterated, attempted, instanceB, rateLimitedBefore,
                   corpus, throttle>>

\* The caller is done with a query: with the response or the exception of
\* the request call and with the paginator it may have built; the next cell
\* starts from the top level.
NextQuery ==
    /\ pc \in {"returned", "failed", "paginate"}
    /\ pc' = "idle"
    /\ call' = NoCall
    /\ lastStatus' = 0
    /\ outcome' = "none"
    /\ result' = <<>>
    /\ held' = <<>>
    /\ pulledOn' = <<>>
    /\ pullOutcome' = "none"
    /\ yielded' = <<>>
    /\ pages' = <<>>
    /\ sent' = <<>>
    /\ collected' = <<>>
    /\ reiterated' = FALSE
    /\ attempted' = <<>>
    /\ tried' = <<>>
    /\ UNCHANGED <<TEMP_ACCESS_TOKEN, n429, attempts, delay, pullRetries,
                   authReply, authPosts, authOutcome, instanceB,
                   rateLimitedBefore,
                   corpus, throttle>>

\* --------------------------------------------------------------- Paginate
\* Paginate(response) on the response request returned: __init__ keeps the
\* response and does nothing else; what the request call left behind stays
\* as it was.
NewPaginate ==
    /\ pc = "returned"
    /\ held' = result
    /\ pages' = result
    /\ pc' = "paginate"
    /\ attempted' = <<>>
    /\ UNCHANGED <<n429, attempts, lastStatus, tried, delay, instanceB,
                   rateLimitedBefore, corpus, throttle>>
    /\ UNCHANGED <<TEMP_ACCESS_TOKEN, call, outcome, result, pulledOn,
                   pullOutcome, pullRetries, yielded, sent, authReply,
                   authPosts, authOutcome, collected, reiterated>>

\* A response kept in one place for all instances (a class attribute): an
\* instance reads the one set last.
SharedResponse(mine, others) == IF others # <<>> THEN others ELSE mine

\* self.response is an attribute of the instance, set in __init__: an
\* instance reads its own, whatever other instances hold.
SelfResponse(mine, others) == mine

\* An assignment that clears self.response before the fetch.
HeldClearedOnFailedFetch(before) == <<>>

\* "self.response = self._get(response)" when _get raises: the assignment
\* does not happen and self.response is what it was.
HeldAfterFailedFetch(before) == before

\* A dispatch whose else branch posts instead of raising.
AnyMethodSupported(method) == TRUE

\* "if method == 'GET' ... elif method == 'POST' ... else: raise ValueError"
IsSupportedMethod(method) == method \in {"GET", "POST"}

\* A dispatch that goes through request: the follow-up takes the token the
\* module holds now.
FollowUpWithCurrentToken(response) ==
    LET follow == IF response.request.method = "GET" THEN Paginate_get(response)
                  ELSE Paginate_post(response)
    IN  [i \in 1..Len(follow) |->
            [follow[i] EXCEPT !.headers["Authorization"] =
                BearerHeader(TEMP_ACCESS_TOKEN)]]

\* A dispatch that calls the helper twice, once to test and once to assign.
FollowUpTwice(response) ==
    IF response.request.method = "GET"
    THEN Paginate_get(response) \o Paginate_get(response)
    ELSE Paginate_post(response) \o Paginate_post(response)

\* A dispatch that takes every method for GET.
FollowUpAlwaysGet(response) == Paginate_get(response)

\* The requests __next__ has _get or _post send for a held response, in
\* order: one, or none (<<>>) when the helper returns None without sending.
FollowUp(response) ==
    IF response.request.method = "GET" THEN Paginate_get(response)
    ELSE Paginate_post(response)

\* One run of the body of __next__ under the backoff decorator, and, when it
\* returns a page, the body of the caller's loop for that page.
Pull ==
    /\ pc = "paginate"
    /\ LET self_response == SelfResponse(held, heldB) IN
       /\ pulledOn' = self_response
       /\ IF NotResponse(self_response)
          THEN /\ pullOutcome' = "StopIteration"
               /\ UNCHANGED <<held, yielded, pages, sent, pullRetries, collected,
                              attempted>>
          ELSE IF IsRateLimited(self_response[1])
          THEN /\ pullOutcome' = IF BackoffGivesUp(pullRetries + 1)
                                 THEN "RateLimitError" ELSE "retrying"
               /\ pullRetries' = pullRetries + 1
               /\ UNCHANGED <<held, yielded, pages, sent, collected, attempted>>
          ELSE IF RaisesForStatus(self_response[1])
          THEN /\ pullOutcome' = "HTTPError"
               /\ UNCHANGED <<held, yielded, pages, sent, pullRetries, collected,
                              attempted>>
          ELSE IF ~IsSupportedMethod(self_response[1].request.method)
          THEN /\ pullOutcome' = "ValueError"
               /\ UNCHANGED <<held, yielded, pages, sent, pullRetries, collected,
                              attempted>>
          ELSE LET response == self_response[1]
                   follow == FollowUp(response)
               IN  /\ pullOutcome' = "yield"
                   /\ yielded' = Append(yielded, response)
                   /\ collected' = extend_caller(collected, response)
                   /\ pullRetries' = 0
                   /\ IF follow = <<>>
                      THEN /\ held' = <<>>
                           /\ UNCHANGED <<pages, sent, attempted>>
                      ELSE \E a \in Answers(0, response.id) :
                           LET answer == Response(response.id + 1, a.status,
                                                  a.kind, follow[Len(follow)],
                                                  corpus)
                           IN  /\ held' = <<answer>>
                               /\ pages' = Append(pages, answer)
                               /\ sent' = sent \o follow
                               /\ attempted' = <<follow[Len(follow)]>>
    /\ UNCHANGED <<TEMP_ACCESS_TOKEN, pc, call, n429, attempts, lastStatus,
                   outcome, result, authReply, authPosts, authOutcome,
                   reiterated, tried, delay, instanceB, rateLimitedBefore,
                   corpus, throttle>>

\* A run of the body of __next__ in which the HTTP call of _get or _post
\* raises (requests.ConnectionError): the exception is no RateLimitError, so
\* it leaves __next__ before the assignment to self.response and before
\* "return response".
PullFetchFails ==
    /\ pc = "paginate"
    /\ ~NotResponse(held)
    /\ ~IsRateLimited(held[1])
    /\ ~RaisesForStatus(held[1])
    /\ IsSupportedMethod(held[1].request.method)
    /\ LET follow == FollowUp(held[1]) IN
        /\ follow # <<>>
        /\ attempted' = <<follow[1]>>
    /\ pulledOn' = held
    /\ pullOutcome' = "ConnectionError"
    /\ held' = HeldAfterFailedFetch(held)
    /\ UNCHANGED <<TEMP_ACCESS_TOKEN, pc, call, n429, attempts, lastStatus,
                   outcome, result, pullRetries, yielded, pages, sent,
                   authReply, authPosts, authOutcome, collected, reiterated,
                   tried, delay, instanceB, rateLimitedBefore,
                   corpus, throttle>>

\* Paginate(response) once more, on the first response or on a page the
\* first instance has received.
NewPaginateB ==
    /\ pc = "paginate"
    /\ pagesB = <<>>
    /\ \E i \in 1..Len(pages) :
        /\ heldB' = <<pages[i]>>
        /\ pagesB' = <<pages[i]>>
    /\ UNCHANGED <<TEMP_ACCESS_TOKEN, pc, call, n429, attempts, lastStatus,
                   outcome, result, held, pulledOn, pullOutcome, pullRetries,
                   yielded, pages, sent, authReply, authPosts, authOutcome,
                   collected, reiterated, tried, delay, attempted, yieldedB,
                   sentB, rateLimitedBefore,
                   corpus, throttle>>

\* One run of the body of __next__ on the second instance; a run that
\* raises (StopIteration, RateLimitError, HTTPError, ValueError) leaves the
\* instance as it was.
PullB ==
    /\ pc = "paginate"
    /\ pagesB # <<>>
    /\ LET self_response == SelfResponse(heldB, held) IN
       IF \/ NotResponse(self_response)
          \/ IsRateLimited(self_response[1])
          \/ RaisesForStatus(self_response[1])
          \/ ~IsSupportedMethod(self_response[1].request.method)
       THEN UNCHANGED instanceB
       ELSE LET response == self_response[1]
                follow == FollowUp(response)
            IN  /\ yieldedB' = Append(yieldedB, response)
                /\ IF follow = <<>>
                   THEN /\ heldB' = <<>>
                        /\ UNCHANGED <<pagesB, sentB>>
                   ELSE \E a \in Answers(0, response.id) :
                        LET answer == Response(response.id + 1, a.status,
                                               a.kind, follow[Len(follow)],
                                                  corpus)
                        IN  /\ heldB' = <<answer>>
                            /\ pagesB' = Append(pagesB, answer)
                            /\ sentB' = sentB \o follow
    /\ UNCHANGED <<TEMP_ACCESS_TOKEN, pc, call, n429, attempts, lastStatus,
                   outcome, result, held, pulledOn, pullOutcome, pullRetries,
                   yielded, pages, sent, authReply, authPosts, authOutcome,
                   collected, reiterated, tried, delay, attempted,
                   rateLimitedBefore,
                   corpus, throttle>>

\* iter() on the paginator once more (a second for loop over it).
Iter ==
    /\ pc = "paginate"
    /\ reiterated' = TRUE
    /\ held' = Paginate_iter(held, result)
    /\ UNCHANGED <<TEMP_ACCESS_TOKEN, pc, call, n429, attempts, lastStatus,
                   outcome, result, pulledOn, pullOutcome, pullRetries,
                   yielded, pages, sent, authReply, authPosts, authOutcome,
                   collected, tried, delay, attempted, instanceB, rateLimitedBefore,
                   corpus, throttle>>

Next ==
    \/ Authenticate
    \/ CallRequest
    \/ RequestAttempt
    \/ NewPaginate
    \/ Pull
    \/ Iter

Spec == Init /\ [][Next]_vars

\* The request call alone, rate-limited as long as the server may.
RetryNext ==
    \/ Authenticate
    \/ CallRequest
    \/ RequestAttempt

RetrySpec == RetryInit /\ [][RetryNext]_vars

\* The interpreter runs the call in progress to its end: every attempt of a
\* request call is eventually made.
FairSpec == RetrySpec /\ WF_vars(RequestAttempt)

\* The same program on a network that may fail while a follow-up page is
\* fetched; the request call is answered without rate limiting.
FaultNext == Next \/ PullFetchFails

FaultSpec == SteadyInit /\ [][FaultNext]_vars

\* A session of queries made one after the other.
SessionNext ==
    \/ Authenticate
    \/ CallRequest
    \/ RequestAttempt
    \/ NewPaginate
    \/ Pull
    \/ NextQuery

SessionSpec == Init /\ [][SessionNext]_vars

\* A query during which the authentication cell is run again, between the
\* pulls of the paginator; the request call is answered without rate
\* limiting.
TokenNext ==
    \/ Authenticate
    \/ CallRequest
    \/ RequestAttempt
    \/ NewPaginate
    \/ Pull
    \/ Reauthenticate

TokenSpec == SteadyInit /\ [][TokenNext]_vars

\* The calls of the two-instance scenario.
TwoCalls ==
    {c \in Calls :
        /\ c.endpoint = "search"
        /\ \/ c.method = "GET" /\ c.json = <<>>
                /\ c.params = <<[k \in Keys |-> PyStr("1")]>>
           \/ c.method = "POST" /\ c.params = <<>>
                /\ c.json = <<[k \in {"a"} |-> PyStr("1")]>>}

\* The caller has entered request for a query it will page through twice.
TwoInit ==
    /\ TEMP_ACCESS_TOKEN = PyStr("token-1")
    /\ pc = "request"
    /\ call \in TwoCalls
    /\ n429 = 0
    /\ attempts = 0
    /\ lastStatus = 0
    /\ outcome = "none"
    /\ result = <<>>
    /\ held = <<>>
    /\ pulledOn = <<>>
    /\ pullOutcome = "none"
    /\ pullRetries = 0
    /\ yielded = <<>>
    /\ pages = <<>>
    /\ sent = <<>>
    /\ authReply = <<>>
    /\ authPosts = 0
    /\ authOutcome = "none"
    /\ collected = <<>>
    /\ reiterated = FALSE
    /\ tried = <<>>
    /\ delay = 0
    /\ attempted = <<>>
    /\ heldB = <<>>
    /\ yieldedB = <<>>
    /\ pagesB = <<>>
    /\ sentB = <<>>
    /\ rateLimitedBefore = FALSE
    /\ corpus = "listed"
    /\ throttle = 0

\* Two Paginate instances of one query, pulled in any interleaving; the
\* request call is answered without rate limiting.
TwoNext ==
    \/ RequestAttempt
    \/ NewPaginate
    \/ Pull
    \/ NewPaginateB
    \/ PullB

TwoSpec == TwoInit /\ [][TwoNext]_vars

\* The calls of request the paginating callers make: search_entities a GET of
\* entities with a params dict, search_documents a POST of search with the
\* query as JSON body.
SearchCalls ==
    {c \in Calls :
        \/ c.method = "GET" /\ c.endpoint = "entities"
                /\ c.params # <<>> /\ c.json = <<>>
        \/ c.method = "POST" /\ c.endpoint = "search"
                /\ c.params = <<>> /\ c.json # <<>>}

\* A paginating caller has entered request for its query; the server holds
\* any of the corpora for it.
SearchInit ==
    /\ TEMP_ACCESS_TOKEN = PyStr("token-1")
    /\ pc = "request"
    /\ call \in SearchCalls
    /\ n429 = 0
    /\ attempts = 0
    /\ lastStatus = 0
    /\ outcome = "none"
    /\ result = <<>>
    /\ held = <<>>
    /\ pulledOn = <<>>
    /\ pullOutcome = "none"
    /\ pullRetries = 0
    /\ yielded = <<>>
    /\ pages = <<>>
    /\ sent = <<>>
    /\ authReply = <<>>
    /\ authPosts = 0
    /\ authOutcome = "none"
    /\ collected = <<>>
    /\ reiterated = FALSE
    /\ tried = <<>>
    /\ delay = 0
    /\ attempted = <<>>
    /\ heldB = <<>>
    /\ yieldedB = <<>>
    /\ pagesB = <<>>
    /\ sentB = <<>>
    /\ rateLimitedBefore = FALSE
    /\ corpus \in Corpora
    /\ throttle = MaxRateLimited

\* search_entities after request has returned: results = [] and
\* Paginate(response), which its loop then pulls to the end.
SearchEntities ==
    /\ call.endpoint = "entities"
    /\ NewPaginate

\* search_documents after request has returned: the total of the stats of
\* the first page; [] returned at once when it is 0; the division by the
\* number of documents on the first page; then Paginate(response), which its
\* loop pulls to the end.
SearchDocuments ==
    /\ pc = "returned"
    /\ call.endpoint = "search"
    /\ LET response == result[1]
           total == DictGet(DictGet(response.json, "stats").dict, "total").int
           documents == DictGet(response.json, "documents").items
       IN  IF total = 0
           THEN /\ pc' = "done"
                /\ collected' = <<>>
                /\ UNCHANGED <<TEMP_ACCESS_TOKEN, call, n429, attempts,
                               lastStatus, outcome, result, held, pulledOn,
                               pullOutcome, pullRetries, yielded, pages, sent,
                               authReply, authPosts, authOutcome, tried, delay,
                               attempted, heldB, yieldedB, pagesB, sentB,
                               rateLimitedBefore, reiterated, corpus, throttle>>
           ELSE IF Len(documents) = 0
           THEN /\ pc' = "failed"
                /\ outcome' = "ZeroDivisionError"
                /\ UNCHANGED <<TEMP_ACCESS_TOKEN, call, n429, attempts,
                               lastStatus, result, held, pulledOn, pullOutcome,
                               pullRetries, yielded, pages, sent, authReply,
                               authPosts, authOutcome, tried, delay, attempted,
                               heldB, yieldedB, pagesB, sentB, rateLimitedBefore,
                               collected, reiterated, corpus, throttle>>
           ELSE NewPaginate

SearchNext ==
    \/ RequestAttempt
    \/ SearchEntities
    \/ SearchDocuments
    \/ Pull

SearchSpec == SearchInit /\ [][SearchNext]_vars

\* ------------------------------------------------------------ properties
IsSuccess(status) == status >= 200 /\ status < 300

Last(seq) == seq[Len(seq)]

\* Paginate supports the methods of the spec's Request Executor contract.
SupportedQuery == pages # <<>> /\ pages[1].request.method \in {"GET", "POST"}

\* The page announces a further page: its next-cursor is present and is
\* neither null nor an empty string.
AnnouncesNextPage(page) ==
    /\ "next-cursor" \in DOMAIN page.json
    /\ page.json["next-cursor"] \notin {PyNone, PyStr("")}

AllPagesSucceeded == \A i \in 1..Len(pages) : IsSuccess(pages[i].status_code)

\* C1: when every page the server serves for a GET or POST query has a
\* success status, no pull fails, the items yielded so far are the pages
\* served in server order with none skipped or repeated, and once the
\* iterator has signalled the end the yielded items are all the pages and
\* the last one carries no truthy next-cursor.
C1_YieldsEveryPageInOrder ==
    (SupportedQuery /\ AllPagesSucceeded) =>
        /\ pullOutcome \in {"none", "yield", "StopIteration"}
        /\ Len(yielded) <= Len(pages)
        /\ yielded = SubSeq(pages, 1, Len(yielded))
        /\ \A i \in 1..(Len(pages) - 1) : AnnouncesNextPage(pages[i])
        /\ (pullOutcome = "StopIteration" =>
                /\ yielded = pages
                /\ ~AnnouncesNextPage(Last(yielded)))

\* Four pages, all with a success status, were yielded and the end signalled.
C1_Witness ==
    /\ SupportedQuery /\ AllPagesSucceeded
    /\ pullOutcome = "StopIteration"
    /\ Len(pages) = MaxPages + 1
    /\ yielded = pages

\* C2: a request call answered 429 n < 10 times and then with a success
\* status ends by returning that response after n + 1 attempts; the
\* RateLimitError of a 429 never reaches the caller before the tenth 429;
\* and every call that is in progress ends.
C2_RetriesUntilSuccess ==
    /\ [](outcome = "RateLimitError" => n429 >= DOCUMENTED_MAX_TRIES)
    /\ []((pc # "request" /\ attempts > 0 /\ IsSuccess(lastStatus)
              /\ n429 < DOCUMENTED_MAX_TRIES) =>
            /\ outcome = "returned"
            /\ result # <<>>
            /\ result[1].status_code = lastStatus
            /\ attempts = n429 + 1)
    /\ ((pc = "request") ~> (pc # "request"))

\* A call answered 429 nine times and then 200 has returned.
C2_Witness ==
    /\ outcome = "returned"
    /\ n429 = DOCUMENTED_MAX_TRIES - 1
    /\ lastStatus = 200
    /\ result # <<>>

\* C3: a request call makes at most 10 HTTP attempts, and after 10
\* answers of 429 it has failed with the retries-exhausted error.
C3_AtMostTenAttempts ==
    /\ attempts <= DOCUMENTED_MAX_TRIES
    /\ (n429 >= DOCUMENTED_MAX_TRIES => pc = "failed" /\ outcome = "RateLimitError")

\* C4: a pull on a held response with status 429 (the answer to the request
\* for the page after a yielded page) does not end the iteration: the
\* paginator retries, it never signals the end at that page.
C4_RateLimitedPageIsRefetched ==
    (pulledOn # <<>> /\ pulledOn[1].status_code = RATE_LIMIT_STATUS) =>
        pullOutcome # "StopIteration"

\* C5: a request call whose latest answer is a non-2xx status other than 429
\* has failed with an HTTP error right at that attempt and returned nothing,
\* and a returned response has a success status.
C5_NonSuccessIsHttpError ==
    /\ (attempts > 0 /\ ~IsSuccess(lastStatus) /\ lastStatus # RATE_LIMIT_STATUS) =>
            /\ pc = "failed"
            /\ outcome = "HTTPError"
            /\ result = <<>>
            /\ attempts = n429 + 1
    /\ (result # <<>> => IsSuccess(result[1].status_code))

IsClientOrServerError(status) == status >= 400 /\ status < 600

\* C6: a pull on a held response with an error status other than 429 (the
\* fetch of the next page was answered 404 or 500) raises the fatal HTTP
\* error; it does not end the iteration normally.
C6_HeldErrorRaisesHttpError ==
    (/\ pulledOn # <<>>
     /\ pulledOn[1].status_code >= 400
     /\ pulledOn[1].status_code # RATE_LIMIT_STATUS) =>
        pullOutcome = "HTTPError"

\* C7: when the iterator has signalled the end, the last item it yielded
\* carries no truthy next-cursor.
C7_EndOnlyAfterLastPage ==
    (pullOutcome = "StopIteration" /\ yielded # <<>>) =>
        ~AnnouncesNextPage(Last(yielded))

\* C8: when the first response of a GET or POST query carries no truthy
\* next-cursor, the paginator sends no request, every pull made so far
\* yielded that response or signalled the end, and the response is yielded
\* exactly once, by the first pull.
C8_SinglePageSendsNothing ==
    (SupportedQuery /\ ~AnnouncesNextPage(pages[1])) =>
        /\ sent = <<>>
        /\ pages = result
        /\ pullOutcome \in {"none", "yield", "StopIteration"}
        /\ (pullOutcome = "none" => yielded = <<>> /\ held = result)
        /\ (pullOutcome # "none" => yielded = result /\ held = <<>>)

\* The single page was yielded and the next pull signalled the end, for a
\* next-cursor that is an empty string.
C8_Witness ==
    /\ SupportedQuery
    /\ "next-cursor" \in DOMAIN pages[1].json
    /\ pages[1].json["next-cursor"] = PyStr("")
    /\ pullOutcome = "StopIteration"
    /\ yielded = result
    /\ sent = <<>>

\* The query string the first GET was sent with.
SentQuery == pages[1].request.query

\* C9: every follow-up GET carries exactly the parameters of the first
\* request, same keys and same values, plus from-cursor set to the
\* next-cursor of the page before.
C9_QueryParametersPreserved ==
    (pages # <<>> /\ pages[1].request.method = "GET") =>
        \A i \in 1..Len(sent) :
            sent[i].query =
                [k \in DOMAIN SentQuery \cup {"from-cursor"} |->
                    IF k = "from-cursor"
                    THEN pages[i].json["next-cursor"].items
                    ELSE SentQuery[k]]

\* The JSON object the first POST was called with ({} when json=None).
CalledBody == IF call.json = <<>> THEN EmptyDict ELSE call.json[1]

\* C10: every follow-up POST carries a JSON body whose fields are those of
\* the body of the first request, same keys and same values, with
\* from-cursor set to the next-cursor of the page before.
C10_BodyFieldsPreserved ==
    (pages # <<>> /\ pages[1].request.method = "POST") =>
        \A i \in 1..Len(sent) :
            /\ sent[i].body # <<>>
            /\ sent[i].body[1] =
                  {<<k, CalledBody[k]>> : k \in DOMAIN CalledBody \ {"from-cursor"}}
                  \cup {<<"from-cursor", pages[i].json["next-cursor"]>>}

\* Three follow-up POSTs were sent for a body with an empty-string field
\* and a null field.
C10_Witness ==
    /\ pages # <<>> /\ pages[1].request.method = "POST"
    /\ Len(sent) = MaxPages
    /\ call.json # <<>>
    /\ DOMAIN call.json[1] = Keys
    /\ call.json[1]["a"] = PyStr("")

\* The token endpoint answered the latest authenticate call with a JSON
\* document that has, or has not, an access_token field.
RepliedWithToken ==
    /\ authReply # <<>>
    /\ authReply[1].body # <<>>
    /\ "access_token" \in DOMAIN authReply[1].body[1]

RepliedWithoutToken ==
    /\ authReply # <<>>
    /\ authReply[1].body # <<>>
    /\ "access_token" \notin DOMAIN authReply[1].body[1]

\* C11 as claimed: authenticate returns the token when the reply contains
\* access_token, and ends with an AuthenticationFailure error, not a normal
\* return, when the field is absent.
C11_AbsentTokenIsFailure ==
    /\ (RepliedWithToken =>
            /\ authOutcome = "returned"
            /\ TEMP_ACCESS_TOKEN = authReply[1].body[1]["access_token"])
    /\ (RepliedWithoutToken => authOutcome = "AuthenticationFailure")

\* C11 amended: authenticate returns the token when the reply contains
\* access_token, and returns None, normally, when the field is absent; the
\* value returned is what TEMP_ACCESS_TOKEN is assigned.
C11_AbsentTokenReturnsNone ==
    /\ (RepliedWithToken =>
            /\ authOutcome = "returned"
            /\ TEMP_ACCESS_TOKEN = authReply[1].body[1]["access_token"])
    /\ (RepliedWithoutToken =>
            /\ authOutcome = "returned"
            /\ TEMP_ACCESS_TOKEN = PyNone)

\* The token endpoint answered 401 with an error document and authenticate
\* returned None.
C11_Witness ==
    /\ RepliedWithoutToken
    /\ authReply[1].status = 401
    /\ authOutcome = "returned"
    /\ TEMP_ACCESS_TOKEN = PyNone

\* The caller has returned its list: search_documents at once, or the loop
\* of the caller has ended.
CallerReturned ==
    \/ pc = "done"
    \/ pc = "paginate" /\ pullOutcome = "StopIteration"

\* The answers the caller got for its query, in order.
Obtained == IF pc = "done" THEN result ELSE pages

\* The items the server lists on the pages of the answers, in order.
RECURSIVE ItemsOfPages(_)
ItemsOfPages(seq) ==
    IF seq = <<>> THEN <<>>
    ELSE ItemsOnPage(corpus, seq[1].id) \o ItemsOfPages(Tail(seq))

\* C12: when search_entities or search_documents has returned its list,
\* every page the server announced for the query was obtained, none of them
\* replaced by an error answer, and the list is the concatenation, in page
\* order, of the items the server lists on these pages.
C12_ResultsConcatenatePages ==
    CallerReturned =>
        /\ \A i \in 1..Len(Obtained) :
                ~IsClientOrServerError(Obtained[i].status_code)
        /\ collected = ItemsOfPages(Obtained)

\* C13: once a pull has signalled the end, every later pull signals the end
\* too, and nothing is sent or yielded any more; a second iter() on the
\* paginator leaves the held response and what was yielded as they were; and
\* no page is yielded twice.
C13_ForwardOnlySinglePass ==
    /\ [][/\ (pullOutcome = "StopIteration" =>
                 /\ pullOutcome' = "StopIteration"
                 /\ sent' = sent
                 /\ yielded' = yielded)
          /\ (reiterated' # reiterated => held' = held /\ yielded' = yielded)
          /\ Len(yielded') >= Len(yielded)
          /\ SubSeq(yielded', 1, Len(yielded)) = yielded]_vars
    /\ [](\A i, j \in 1..Len(yielded) : i # j => yielded[i].id # yielded[j].id)

\* After two pages were yielded and the end signalled, iter() was called
\* again and the latest pull signalled the end.
C13_Witness ==
    /\ reiterated
    /\ pullOutcome = "StopIteration"
    /\ pulledOn = <<>>
    /\ held = <<>>
    /\ Len(yielded) = 2

\* C14: every run of __next__ ends the pull: it yields a page, signals the
\* end or raises a fatal error, and leaves no retry pending; a pull on a held
\* response with status 429 ends too, without a retry.
C14_PullTerminates ==
    /\ pullOutcome \in {"none", "yield", "StopIteration", "HTTPError", "ValueError"}
    /\ pullRetries = 0
    /\ ((pulledOn # <<>> /\ pulledOn[1].status_code = RATE_LIMIT_STATUS) =>
            pullOutcome \in {"StopIteration", "RateLimitError"})

\* A pull on a held 429 response has ended.
C14_Witness ==
    /\ pulledOn # <<>>
    /\ pulledOn[1].status_code = RATE_LIMIT_STATUS
    /\ pullOutcome = "StopIteration"
    /\ pullRetries = 0

\* The request carries from-cursor in its query string, in its JSON body.
CursorInQuery(req) == "from-cursor" \in DOMAIN req.query

CursorInBody(req) ==
    req.body # <<>> /\ \E member \in req.body[1] : member[1] = "from-cursor"

\* C15: every follow-up request has the method of the response it was
\* derived from; a follow-up GET carries from-cursor in the query string and
\* has no JSON body, a follow-up POST carries it in the JSON body and not in
\* the query string.
C15_CursorPlacedByMethod ==
    \A i \in 1..Len(sent) :
        /\ sent[i].method = pages[i].request.method
        /\ sent[i].method \in {"GET", "POST"}
        /\ (sent[i].method = "GET" =>
                CursorInQuery(sent[i]) /\ sent[i].body = <<>>)
        /\ (sent[i].method = "POST" =>
                CursorInBody(sent[i]) /\ ~CursorInQuery(sent[i]))

\* Two follow-up POSTs were sent for a first POST that had query parameters.
C15_Witness ==
    /\ Len(sent) >= 2
    /\ sent[2].method = "POST"
    /\ CursorInBody(sent[2])
    /\ pages[1].request.query # EmptyDict

\* The next-cursor the server put on a page.
CursorOf(page) == page.json["next-cursor"]

\* C16: the request for page N+1 carries exactly one from-cursor value, the
\* next-cursor of page N; the from-cursor that fetched page N is not kept
\* beside it.
C16_CursorOverwritten ==
    \A i \in 1..Len(sent) :
        /\ (sent[i].method = "GET" =>
                /\ CursorInQuery(sent[i])
                /\ sent[i].query["from-cursor"] = CursorOf(pages[i]).items)
        /\ (sent[i].method = "POST" =>
                /\ sent[i].body # <<>>
                /\ {member \in sent[i].body[1] : member[1] = "from-cursor"}
                       = {<<"from-cursor", CursorOf(pages[i])>>})

\* The third follow-up GET carries the cursor of the third page, and the
\* request that fetched the third page carried another one.
C16_Witness ==
    /\ Len(sent) = MaxPages
    /\ sent[MaxPages].method = "GET"
    /\ sent[MaxPages].query["from-cursor"] = <<Tokens[MaxPages]>>
    /\ pages[MaxPages].request.query["from-cursor"] = <<Tokens[MaxPages - 1]>>

\* The latest pull was the first one, made on the response the paginator
\* was constructed with, and it yielded.
FirstPullYielded ==
    /\ pc = "paginate"
    /\ pulledOn # <<>>
    /\ pulledOn = result
    /\ pullOutcome = "yield"

\* C17 as claimed: when the first pull has produced the first item, no
\* follow-up request has been issued yet.
C17_FirstItemBeforeAnyRequest == FirstPullYielded => sent = <<>>

\* C17 amended: the first pull yields the response the paginator was
\* constructed with, and that item needs no request; but before it returns,
\* the pull has issued the one request for the second page and holds its
\* answer, exactly when the first page announces a further page.
C17_FirstPullFetchesAhead ==
    FirstPullYielded =>
        /\ yielded = result
        /\ Len(sent) <= 1
        /\ (sent # <<>> <=> AnnouncesNextPage(result[1]))
        /\ (sent # <<>> => Len(pages) = 2 /\ held = <<pages[2]>>)
        /\ (sent = <<>> => pages = result /\ held = <<>>)

\* The first pull has yielded the first page and already holds the answer
\* to the request for the second one.
C17_Witness ==
    /\ FirstPullYielded
    /\ yielded = result
    /\ Len(sent) = 1
    /\ Len(pages) = 2
    /\ held = <<pages[2]>>

\* The from-cursor a follow-up request carries, as the values sent.
CarriedCursor(req) ==
    IF req.method = "GET" THEN req.query["from-cursor"]
    ELSE (CHOOSE member \in req.body[1] : member[1] = "from-cursor")[2].items

\* C18: pagination is strictly sequential: every request the paginator has
\* issued has been answered (none is in flight between two steps), a step
\* issues at most one request, the i-th answer is the answer to the i-th
\* request, and the request for page N+1 carries the cursor that the answer
\* for page N, received before it, returned.
C18_StrictlySequential ==
    /\ [](pages # <<>> => Len(pages) = Len(sent) + 1)
    /\ [](\A i \in 1..Len(sent) :
            /\ i + 1 <= Len(pages)
            /\ pages[i + 1].request = sent[i]
            /\ AnnouncesNextPage(pages[i])
            /\ CarriedCursor(sent[i]) = pages[i].json["next-cursor"].items)
    /\ [][Len(sent') <= Len(sent) + 1 /\ Len(pages') <= Len(pages) + 1]_vars

\* Three requests were issued one after the other, each answered.
C18_Witness ==
    /\ Len(sent) = MaxPages
    /\ Len(pages) = MaxPages + 1
    /\ \A i \in 1..MaxPages : pages[i + 1].request = sent[i]

\* C19: after m items have been yielded the paginator has issued at most m
\* follow-up requests and received at most m + 1 pages, and a request is
\* issued only by a pull, the one that yields the page it was derived from.
C19_AtMostOnePageAhead ==
    /\ [](Len(sent) <= Len(yielded))
    /\ [](Len(pages) <= Len(yielded) + 1)
    /\ [][sent' # sent =>
            /\ pc = "paginate"
            /\ pullOutcome' = "yield"
            /\ Len(yielded') = Len(yielded) + 1]_vars

\* The caller has pulled two items; the third page is held, it announces a
\* fourth, and no request for the fourth has been issued.
C19_Witness ==
    /\ Len(yielded) = 2
    /\ Len(sent) = 2
    /\ Len(pages) = 3
    /\ held = <<pages[3]>>
    /\ AnnouncesNextPage(pages[3])

\* C20: a page (an answer without an error status) of a GET or POST query
\* whose next-cursor is missing, null or an empty string is the last answer:
\* no request is issued after it, it is the last item yielded, nothing is
\* held after it, and the end is signalled only once it has been yielded.
C20_FalsyCursorEndsPages ==
    SupportedQuery =>
        \A i \in 1..Len(pages) :
            (pages[i].status_code < 400 /\ ~AnnouncesNextPage(pages[i])) =>
                /\ i = Len(pages)
                /\ Len(sent) = i - 1
                /\ Len(yielded) \in {i - 1, i}
                /\ (Len(yielded) = i - 1 => held = <<pages[i]>>)
                /\ (Len(yielded) = i => held = <<>> /\ Last(yielded) = pages[i])
                /\ (pullOutcome = "StopIteration" => Len(yielded) = i)

\* The second page carried "next-cursor": null; it was yielded last and the
\* end was signalled.
C20_Witness ==
    /\ SupportedQuery
    /\ Len(pages) = 2
    /\ "next-cursor" \in DOMAIN pages[2].json
    /\ pages[2].json["next-cursor"] = PyNone
    /\ pages[2].status_code = 200
    /\ pullOutcome = "StopIteration"
    /\ Last(yielded) = pages[2]

\* C21: every item the paginator has yielded has a success (2xx) status.
C21_YieldedItemsAreSuccesses ==
    \A i \in 1..Len(yielded) : IsSuccess(yielded[i].status_code)

\* A request call is in progress or has just ended.
InRequestCall == pc \in {"request", "returned", "failed"}

\* C23: every HTTP attempt of a request call sent the request of the first
\* attempt (same method, endpoint, query, JSON body and Authorization
\* header), and that request is the one the call's arguments and the token
\* describe.
C23_RetryReplaysTheRequest ==
    InRequestCall =>
        /\ Len(tried) = attempts
        /\ \A i \in 1..Len(tried) :
            /\ tried[i] = tried[1]
            /\ tried[i].method = call.method
            /\ tried[i].path = call.endpoint
            /\ (tried[i].body = <<>> <=> call.json = <<>>)
            /\ tried[i].headers.Authorization.credentials
                   = (IF TEMP_ACCESS_TOKEN = PyNone THEN "None"
                      ELSE TEMP_ACCESS_TOKEN.items[1])

\* A POST with a JSON body was answered 429 twice and sent a third time.
C23_Witness ==
    /\ InRequestCall
    /\ n429 >= 2
    /\ Len(tried) >= 3
    /\ tried[3].method = "POST"
    /\ tried[3].body # <<>>
    /\ tried[3] = tried[1]

\* min(base * 2^(i-1), cap) with base 1 and cap 10.
CappedExponential(i) == IF 2 ^ (i - 1) <= 10 THEN 2 ^ (i - 1) ELSE 10

\* C25: while a request call waits for its i-th retry, the delay it sleeps
\* is min(base * 2^(i-1), 10).
C25_DelayIsCappedExponential ==
    (pc = "request" /\ n429 >= 1) => delay = CappedExponential(n429)

\* C26: an authenticate call that has ended made exactly one HTTP POST to
\* the token endpoint, whatever the endpoint answered.
C26_AuthenticatePostsOnce ==
    authOutcome # "none" =>
        /\ authReply # <<>>
        /\ authPosts = 1

\* The token endpoint answered 429 and authenticate returned after its one
\* POST.
C26_Witness ==
    /\ authOutcome = "returned"
    /\ authReply # <<>>
    /\ authReply[1].status = RATE_LIMIT_STATUS
    /\ authPosts = 1

\* The paginator was built on the response to a request whose method is
\* neither GET nor POST.
UnsupportedQuery ==
    pages # <<>> /\ pages[1].request.method \notin {"GET", "POST"}

\* C29: when the held response's request method is neither GET nor POST,
\* every pull made so far raised the 'method not supported' error, no
\* follow-up request was issued, nothing was yielded and the paginator still
\* holds the response it was constructed with.
C29_UnsupportedMethodRaises ==
    UnsupportedQuery =>
        /\ pullOutcome \in {"none", "ValueError"}
        /\ sent = <<>>
        /\ yielded = <<>>
        /\ collected = <<>>
        /\ pages = result
        /\ held = result

\* A pull on the response to a PUT raised the error and left it held.
C29_Witness ==
    /\ UnsupportedQuery
    /\ pulledOn = result
    /\ pullOutcome = "ValueError"
    /\ held = result
    /\ held[1].request.method = "PUT"

\* An instance consumed alone: what it yielded is, in order, the page it was
\* built on and the answers to its own requests, each request carrying the
\* cursor of the instance's own page before it.
ConsumedAsAlone(ys, ps, reqs) ==
    /\ Len(ys) <= Len(ps)
    /\ ys = SubSeq(ps, 1, Len(ys))
    /\ (ps # <<>> => Len(ps) = Len(reqs) + 1)
    /\ \A i \in 1..Len(reqs) :
        /\ i + 1 <= Len(ps)
        /\ ps[i + 1].request = reqs[i]
        /\ ps[i + 1].id = ps[i].id + 1
        /\ AnnouncesNextPage(ps[i])
        /\ CarriedCursor(reqs[i]) = ps[i].json["next-cursor"].items

\* C27: however the pulls on two Paginate instances are interleaved, each
\* instance yields the page sequence of its own cursor chain, as it would
\* when consumed alone, and a pull on one instance changes nothing of the
\* other.
C27_InstancesAreIndependent ==
    /\ [](ConsumedAsAlone(yielded, pages, sent))
    /\ [](ConsumedAsAlone(yieldedB, pagesB, sentB))
    /\ [][/\ (instanceB' # instanceB => UNCHANGED <<held, yielded, pages, sent>>)
          /\ (<<held, yielded, pages, sent>>' # <<held, yielded, pages, sent>>
                  => UNCHANGED instanceB)]_vars

\* Two instances built on the same first response have each yielded two
\* pages, the server having answered their requests differently, and hold
\* different responses.
C27_Witness ==
    /\ Len(yielded) = 2
    /\ Len(yieldedB) = 2
    /\ pagesB[1] = pages[1]
    /\ yieldedB[2] # yielded[2]
    /\ held # <<>>
    /\ heldB # <<>>
    /\ heldB # held

\* C30: when the fetch inside the latest pull raised, the paginator holds
\* the response the pull started from, that page has not been yielded, and
\* the request that failed is the follow-up for that page; the next pull that
\* does not fail the same way yields exactly that page, after sending the
\* same request again.  No page is skipped or yielded twice.
C30_FailedFetchLeavesPageHeld ==
    /\ [](pullOutcome = "ConnectionError" =>
            /\ held # <<>>
            /\ held = pulledOn
            /\ held[1] = pages[Len(pages)]
            /\ Len(yielded) = Len(pages) - 1
            /\ attempted # <<>>
            /\ AnnouncesNextPage(held[1])
            /\ CarriedCursor(attempted[1]) = held[1].json["next-cursor"].items
            /\ attempted[1].method = held[1].request.method)
    /\ [](/\ Len(yielded) <= Len(pages)
          /\ yielded = SubSeq(pages, 1, Len(yielded))
          /\ \A i, j \in 1..Len(yielded) : yielded[i] = yielded[j] => i = j)
    /\ [][(pullOutcome = "ConnectionError" /\ pullOutcome' # "ConnectionError") =>
            /\ pullOutcome' = "yield"
            /\ yielded' = Append(yielded, held[1])
            /\ sent' = Append(sent, attempted[1])
            /\ attempted' = attempted]_vars

\* The first page was yielded, then the fetch of the third page failed: the
\* second page is still held and has not been yielded.
C30_Witness ==
    /\ pullOutcome = "ConnectionError"
    /\ Len(pages) = 2
    /\ Len(yielded) = 1
    /\ held = <<pages[2]>>
    /\ attempted # <<>>
    /\ sent # <<>>
    /\ attempted[1] # sent[Len(sent)]

\* C22 as claimed: every follow-up request of a pagination sequence has the
\* method, the target URL and the headers, Authorization bearer token
\* included, of the request that produced the first response, whatever
\* TEMP_ACCESS_TOKEN has been set to since.
C22_FollowUpKeepsMethodUrlHeaders ==
    \A i \in 1..Len(sent) :
        /\ sent[i].method = pages[1].request.method
        /\ sent[i].path = pages[1].request.path
        /\ sent[i].headers = pages[1].request.headers
        /\ pages[1] = result[1]

\* The headers of a request other than Content-Length.
HeadersButLength(req) ==
    [h \in DOMAIN req.headers \ {"Content-Length"} |-> req.headers[h]]

\* The length of the JSON text of a body: the braces, each member as
\* "key": value, and ", " between members.
BodyLength(text) ==
    LET keyLen(k) == IF k = "from-cursor" THEN 11 ELSE 1
        valLen(v) == IF v = PyNone THEN 4
                     ELSE IF v = PyStr("") THEN 2
                     ELSE IF v = PyStr("1") THEN 3
                     ELSE 4
        n == Cardinality(text)
        member(m) == keyLen(m[1]) + 4 + valLen(m[2])
        RECURSIVE total(_)
        total(ms) == IF ms = {} THEN 0
                     ELSE LET m == CHOOSE x \in ms : TRUE
                          IN  member(m) + total(ms \ {m})
    IN  2 + total(text) + (IF n > 1 THEN 2 * (n - 1) ELSE 0)

\* C22 amended: every follow-up request has the method, the target URL and
\* every header other than Content-Length, Authorization bearer token
\* included, of the request that produced the first response, whatever
\* TEMP_ACCESS_TOKEN has been set to since; the Content-Length of a POST
\* follow-up is the length of its own body, which holds from-cursor, and a
\* GET follow-up carries the Content-Length of the first request, if any.
C22_FollowUpKeepsAllButContentLength ==
    \A i \in 1..Len(sent) :
        /\ pages[1] = result[1]
        /\ sent[i].method = pages[1].request.method
        /\ sent[i].path = pages[1].request.path
        /\ HeadersButLength(sent[i]) = HeadersButLength(pages[1].request)
        /\ "Authorization" \in DOMAIN sent[i].headers
        /\ (sent[i].method = "POST" =>
                /\ sent[i].body # <<>>
                /\ sent[i].headers["Content-Length"] = BodyLength(sent[i].body[1]))
        /\ (sent[i].method = "GET" =>
                sent[i].headers = pages[1].request.headers)

\* Three POST follow-ups were sent with the token of the first request
\* although authenticate has meanwhile set another token; their bodies are
\* longer than the first one and their Content-Length says so.
C22_Witness ==
    /\ Len(sent) = MaxPages
    /\ authOutcome = "returned"
    /\ TEMP_ACCESS_TOKEN = PyStr("token-2")
    /\ pages[1].request.method = "POST"
    /\ pages[1].request.headers.Authorization.credentials = "token-1"
    /\ \A i \in 1..Len(sent) :
        /\ sent[i].headers.Authorization.credentials = "token-1"
        /\ sent[i].headers["Content-Length"]
               > pages[1].request.headers["Content-Length"]

\* C24: a request call starts with no tries counted, no attempt made and no
\* delay slept, whatever the calls before it counted; while it runs, its
\* counters count its own attempts only and the delay before its i-th retry
\* is bounded by the i-th value of its own wait generator; and no pull of a
\* paginator carries a retry.
C24_RetryStateIsPerCall ==
    /\ [][(pc' = "request" /\ pc # "request") =>
            n429' = 0 /\ attempts' = 0 /\ delay' = 0 /\ tried' = <<>>]_vars
    /\ [](pc = "request" =>
            /\ attempts = n429
            /\ attempts = Len(tried)
            /\ (n429 = 0 => delay = 0)
            /\ (n429 >= 1 => delay <= CappedExponential(n429)))
    /\ [](pullRetries = 0)

\* A call made after a call that was answered 429 has been answered 429
\* once: it has made one attempt and waits for its first retry.
C24_Witness ==
    /\ rateLimitedBefore
    /\ pc = "request"
    /\ n429 = 1
    /\ attempts = 1
    /\ delay <= 1

\* The access_token of the latest reply of the token endpoint, None if it
\* carries none.
RepliedToken ==
    IF "access_token" \in DOMAIN authReply[1].body[1]
    THEN authReply[1].body[1]["access_token"] ELSE PyNone

\* C28: TEMP_ACCESS_TOKEN changes only in a step in which authenticate
\* returns, to the value it returns; no attempt of a request call, retry,
\* failure or pull changes it; so the token is the one authenticate returned
\* last.
C28_OnlyAuthenticateSetsToken ==
    /\ [][TEMP_ACCESS_TOKEN' # TEMP_ACCESS_TOKEN =>
            /\ authOutcome' = "returned"
            /\ UNCHANGED <<pc, attempts, n429, yielded, pages, sent>>]_vars
    /\ [](authOutcome = "returned" => TEMP_ACCESS_TOKEN = RepliedToken)

\* After authenticate returned "token-2", a request call that was answered
\* 429 and a paginator pulled to its end, in a later query of the session,
\* the token is still "token-2".
C28_Witness ==
    /\ authOutcome = "returned"
    /\ TEMP_ACCESS_TOKEN = PyStr("token-2")
    /\ rateLimitedBefore
    /\ pullOutcome = "StopIteration"
    /\ Len(yielded) >= 2
    /\ yielded[1].request.headers.Authorization.credentials = "token-2"

====
